---- MODULE Spec2Model ----
(***************************************************************************)
(* Model of pydis_site/apps/api: the data migration                        *)
(* 0079_dm_embed_and_alert_fields and the serializers of serializers.py.   *)
(*                                                                         *)
(* Python values are written as strings so that values of different Python *)
(* types can be compared: "None", "True", "False", "ABSENT" (a key that is  *)
(* not in a dict), "" (the empty str).  Database values: "NULL" (SQL null)  *)
(* and "NoColumn" (the table has no such column).                          *)
(***************************************************************************)
EXTENDS Integers, Sequences, FiniteSets, TLC

\* ---------------------------------------------------------------- bounds
NRows == 2
MaxRuns == 3
MaxNominations == 2
MaxCalls == 2
MaxMessages == 2
MaxMsgId == 3

VARIABLES
    \* migration 0079
    rows,        \* FilterList table: row index -> [name, send_alert, dm_embed]
    schema,      \* column -> "absent" | "null" (nullable) | "notnull"
    applied,     \* number of entries of Migration.operations currently applied
    direction,   \* "forward" | "backward"
    pc,          \* "idle" | "migrate" | "unmigrate" | "raised"
    cursor,      \* position of the for loop over FilterList.objects.all()
    runs,        \* number of times a data step has been started
    outcomes,    \* how each finished run of a data step ended
    migError,    \* the exception the last failed save() raised
    txn,         \* database state at the start of the open transaction
    \* InfractionSerializer.validate
    infAttrs,    \* the candidate attribute set
    infResult,   \* what validate returned or raised
    \* NominationSerializer
    nomStore,    \* Nomination table: id -> [exists, active, unnominate_reason]
    nomOp,       \* the last write: "none" | "create" | "update" | "partial_update"
    nomAttrs,    \* its candidate attribute set
    nomResult,   \* what validate returned or raised for it
    \* MessageDeletionContextSerializer.create
    contexts,    \* MessageDeletionContext table, in insertion order
    messages,    \* DeletedMessage table, in insertion order
    cpc,         \* "idle" | "popped" | "created" | "returned" | "raised"
    validated_data,    \* the argument of create
    popped,            \* local variable messages
    deletion_context,  \* local variable deletion_context (0: unbound)
    mi,                \* position of the for loop over messages
    returned,          \* the value create returned (0: none)
    before,            \* sizes of the two tables when create was entered
    calls,             \* number of calls of create
    \* serialization round trip
    rtVariant,   \* the serializer class
    rtRecord,    \* the persisted record
    rtRepr,      \* to_representation(record)
    rtResult,    \* validation of the representation
    rtPc         \* "start" | "serialized" | "validated"

migVars == <<rows, schema, applied, direction, pc, cursor, runs, outcomes, migError, txn>>
infVars == <<infAttrs, infResult>>
nomVars == <<nomStore, nomOp, nomAttrs, nomResult>>
mdcVars == <<contexts, messages, cpc, validated_data, popped, deletion_context, mi,
             returned, before, calls>>
rtVars == <<rtVariant, rtRecord, rtRepr, rtResult, rtPc>>

vars == <<migVars, infVars, nomVars, mdcVars, rtVars>>

\* What the steps of one component leave alone.
notMig == <<infVars, nomVars, mdcVars, rtVars>>
notInf == <<migVars, nomVars, mdcVars, rtVars>>
notNom == <<migVars, infVars, mdcVars, rtVars>>
notMdc == <<migVars, infVars, nomVars, rtVars>>
notRt == <<migVars, infVars, nomVars, mdcVars>>

\* ------------------------------------------------------- Python values

\* bool(v) of the values that occur here.
Truthy(v) == v \notin {"None", "False", ""}

\* dict.get(key): None for a key that is not in the dict.
Get(attrs, key) == IF attrs[key] = "ABSENT" THEN "None" ELSE attrs[key]

\* ------------------------------------------------------- migration 0079

\* FilterList.name is free text; "other" stands for any name change_map lacks.
Names == {"token", "domain", "invite", "extension", "redirect", "other"}

change_map ==
    [n \in {"token", "domain", "invite", "extension", "redirect"} |->
        IF n \in {"token", "domain", "invite"} THEN "True" ELSE "False"]

\* dict.get: the value, or None for a key that is not in the dict.
ChangeMapGet(name) ==
    IF name \in DOMAIN change_map THEN change_map[name] ELSE "None"

\* Python value -> the value written to the column.
ToDb(v) == IF v = "None" THEN "NULL" ELSE v

\* Migration.operations: four AddField, then RunPython.
operations == <<
    [op |-> "AddField", column |-> "filter.send_alert",     null |-> TRUE,  default |-> "NULL"],
    [op |-> "AddField", column |-> "filter.dm_embed",       null |-> TRUE,  default |-> "NULL"],
    [op |-> "AddField", column |-> "filterlist.send_alert", null |-> FALSE, default |-> "True"],
    [op |-> "AddField", column |-> "filterlist.dm_embed",   null |-> TRUE,  default |-> "NULL"],
    [op |-> "RunPython", column |-> "", null |-> FALSE, default |-> ""] >>

NAddField == Len(operations) - 1

Columns == {operations[k].column : k \in 1..NAddField}

\* The body of the loop of migrate_filterlist, before save().
MutMigrateNoDmEmbed(row) ==
    [row EXCEPT !.send_alert = ToDb(ChangeMapGet(row.name))]

MutMigrateToggle(row) ==
    [row EXCEPT !.send_alert = IF row.dm_embed = "" /\ row.name = "extension"
                               THEN "True" ELSE ToDb(ChangeMapGet(row.name)),
                !.dm_embed = ""]

MigrateRowValue(row) ==
    [row EXCEPT !.send_alert = ToDb(ChangeMapGet(row.name)),
                !.dm_embed = ""]

\* The body of the loop of unmigrate_filterlist, before save().  The
\* assignment to server_message_embed sets an attribute of the instance
\* that is no column added by this migration; save() does not write it.
MutUnmigrateKeep(row) == row

UnmigrateRowValue(row) ==
    [row EXCEPT !.send_alert = "True"]

\* save(): the database rejects NULL in a column declared without null=True.
SaveAccepted(row) ==
    /\ (schema["filterlist.send_alert"] = "notnull" => row.send_alert # "NULL")
    /\ (schema["filterlist.dm_embed"] = "notnull" => row.dm_embed # "NULL")

\* AddField on filterlist: existing rows take the field's default.
RowWithColumn(row, o) ==
    IF o.column = "filterlist.send_alert" THEN [row EXCEPT !.send_alert = o.default]
    ELSE IF o.column = "filterlist.dm_embed" THEN [row EXCEPT !.dm_embed = o.default]
    ELSE row

\* The reverse of AddField is RemoveField: the column and its values go.
RowWithoutColumn(row, o) ==
    IF o.column = "filterlist.send_alert" THEN [row EXCEPT !.send_alert = "NoColumn"]
    ELSE IF o.column = "filterlist.dm_embed" THEN [row EXCEPT !.dm_embed = "NoColumn"]
    ELSE row

Snapshot == [rows |-> rows, schema |-> schema, applied |-> applied, direction |-> direction]

MigInit ==
    /\ rows \in [1..NRows -> [name : Names, send_alert : {"NoColumn"}, dm_embed : {"NoColumn"}]]
    /\ schema = [c \in Columns |-> "absent"]
    /\ applied = 0
    /\ direction = "forward"
    /\ pc = "idle"
    /\ cursor = 0
    /\ runs = 0
    /\ outcomes = <<>>
    /\ migError = "none"
    /\ txn = [rows |-> rows, schema |-> schema, applied |-> 0, direction |-> "forward"]

\* Forward: the next AddField of Migration.operations.
AddField ==
    /\ direction = "forward" /\ pc = "idle" /\ applied < NAddField
    /\ LET o == operations[applied + 1] IN
        /\ schema' = [schema EXCEPT ![o.column] = IF o.null THEN "null" ELSE "notnull"]
        /\ rows' = [i \in 1..NRows |-> RowWithColumn(rows[i], o)]
    /\ applied' = applied + 1
    /\ txn' = IF applied = 0 THEN Snapshot ELSE txn
    /\ UNCHANGED <<direction, pc, cursor, runs, outcomes, migError>>
    /\ UNCHANGED notMig

\* RunPython forward: migrate_filterlist is entered (first run, a retry after
\* a failed run, or a run over rows that are already migrated).
StartMigrate ==
    /\ direction = "forward" /\ pc \in {"idle", "raised"}
    /\ applied \in {NAddField, NAddField + 1}
    /\ runs < MaxRuns
    /\ pc' = "migrate"
    /\ cursor' = 1
    /\ runs' = runs + 1
    /\ txn' = IF applied = NAddField + 1 \/ pc = "raised" THEN Snapshot ELSE txn
    /\ UNCHANGED <<rows, schema, applied, direction, outcomes, migError>>
    /\ UNCHANGED notMig

\* One iteration of the loop of migrate_filterlist; save() succeeds.
MigrateRow ==
    /\ pc = "migrate" /\ cursor <= NRows
    /\ SaveAccepted(MigrateRowValue(rows[cursor]))
    /\ rows' = [rows EXCEPT ![cursor] = MigrateRowValue(rows[cursor])]
    /\ cursor' = cursor + 1
    /\ UNCHANGED <<schema, applied, direction, pc, runs, outcomes, migError, txn>>
    /\ UNCHANGED notMig

\* An exception leaves a data step.  With transactional DDL the migration's
\* transaction is rolled back; without it the rows saved so far stay.
Raise(error, rollback) ==
    /\ migError' = error
    /\ IF rollback
       THEN /\ rows' = txn.rows
            /\ schema' = txn.schema
            /\ applied' = txn.applied
            /\ direction' = txn.direction
            /\ pc' = "idle"
            /\ outcomes' = Append(outcomes, "rolledback")
       ELSE /\ pc' = "raised"
            /\ outcomes' = Append(outcomes, IF cursor > 1 THEN "partial" ELSE "raised")
            /\ UNCHANGED <<rows, schema, applied, direction>>
    /\ UNCHANGED <<cursor, runs, txn>>

\* save() of a row whose send_alert is None on a NOT NULL column.
MigrateIntegrityError ==
    /\ pc = "migrate" /\ cursor <= NRows
    /\ ~SaveAccepted(MigrateRowValue(rows[cursor]))
    /\ \E rollback \in BOOLEAN : Raise("IntegrityError", rollback)
    /\ UNCHANGED notMig

\* save() fails for a reason of the database's own (connection lost, ...).
MigrateWriteError ==
    /\ pc = "migrate" /\ cursor <= NRows
    /\ \E rollback \in BOOLEAN : Raise("DatabaseError", rollback)
    /\ UNCHANGED notMig

\* The loop of migrate_filterlist is exhausted: RunPython is applied.
MigrateReturn ==
    /\ pc = "migrate" /\ cursor = NRows + 1
    /\ pc' = "idle"
    /\ applied' = NAddField + 1
    /\ outcomes' = Append(outcomes, "done")
    /\ UNCHANGED <<rows, schema, direction, cursor, runs, migError, txn>>
    /\ UNCHANGED notMig

\* Reverse: operations are unapplied last to first, so RunPython's reverse,
\* unmigrate_filterlist, runs first.
StartUnmigrate ==
    /\ applied = NAddField + 1
    /\ \/ direction = "forward" /\ pc = "idle"
       \/ direction = "backward" /\ pc = "raised"
    /\ runs < MaxRuns
    /\ direction' = "backward"
    /\ pc' = "unmigrate"
    /\ cursor' = 1
    /\ runs' = runs + 1
    /\ txn' = Snapshot
    /\ UNCHANGED <<rows, schema, applied, outcomes, migError>>
    /\ UNCHANGED notMig

UnmigrateRow ==
    /\ pc = "unmigrate" /\ cursor <= NRows
    /\ SaveAccepted(UnmigrateRowValue(rows[cursor]))
    /\ rows' = [rows EXCEPT ![cursor] = UnmigrateRowValue(rows[cursor])]
    /\ cursor' = cursor + 1
    /\ UNCHANGED <<schema, applied, direction, pc, runs, outcomes, migError, txn>>
    /\ UNCHANGED notMig

UnmigrateWriteError ==
    /\ pc = "unmigrate" /\ cursor <= NRows
    /\ \E rollback \in BOOLEAN : Raise("DatabaseError", rollback)
    /\ UNCHANGED notMig

UnmigrateReturn ==
    /\ pc = "unmigrate" /\ cursor = NRows + 1
    /\ pc' = "idle"
    /\ applied' = NAddField
    /\ outcomes' = Append(outcomes, "reverted")
    /\ UNCHANGED <<rows, schema, direction, cursor, runs, migError, txn>>
    /\ UNCHANGED notMig

\* Reverse of the AddField last applied: RemoveField.
RemoveField ==
    /\ direction = "backward" /\ pc = "idle" /\ applied \in 1..NAddField
    /\ LET o == operations[applied] IN
        /\ schema' = [schema EXCEPT ![o.column] = "absent"]
        /\ rows' = [i \in 1..NRows |-> RowWithoutColumn(rows[i], o)]
    /\ applied' = applied - 1
    /\ UNCHANGED <<direction, pc, cursor, runs, outcomes, migError, txn>>
    /\ UNCHANGED notMig

MigNext ==
    \/ AddField
    \/ StartMigrate
    \/ MigrateRow
    \/ MigrateIntegrityError
    \/ MigrateWriteError
    \/ MigrateReturn
    \/ StartUnmigrate
    \/ UnmigrateRow
    \/ UnmigrateWriteError
    \/ UnmigrateReturn
    \/ RemoveField

\* --------------------------------------------------- migration: claims

ForwardDone == direction = "forward" /\ applied = NAddField + 1 /\ pc = "idle"

ReverseDataDone == direction = "backward" /\ applied = NAddField /\ pc = "idle"

ReverseDone == direction = "backward" /\ applied = 0 /\ pc = "idle"

\* C1: once migrate_filterlist has run to completion, every row whose name is
\* one of the five mapped names has send_alert = change_map[name] and
\* dm_embed = "".
C1_ForwardResult ==
    ForwardDone =>
        \A i \in 1..NRows :
            rows[i].name \in DOMAIN change_map =>
                /\ rows[i].send_alert = change_map[rows[i].name]
                /\ rows[i].dm_embed = ""

C1_Witness ==
    /\ ForwardDone
    /\ \E i \in 1..NRows : rows[i].name = "extension" /\ rows[i].send_alert = "False"
    /\ \E i \in 1..NRows : rows[i].name \in {"token", "domain", "invite"}


\* C6: after the reverse migration has completed, every FilterList row has
\* send_alert = True.  (Original statement; the reverse migration ends by
\* removing the column.)
C6_AfterReverseMigration ==
    ReverseDone => \A i \in 1..NRows : rows[i].send_alert = "True"

\* C6 (amended): when the reverse data step unmigrate_filterlist has run to
\* completion and the columns are not yet removed, every FilterList row has
\* send_alert = True, whatever its name and its value before.
C6_AfterUnmigrate ==
    ReverseDataDone => \A i \in 1..NRows : rows[i].send_alert = "True"

C6_Witness ==
    /\ ReverseDataDone
    /\ \E i \in 1..NRows : rows[i].name = "extension" /\ txn.rows[i].send_alert = "False"
    /\ \E i \in 1..NRows : rows[i].name = "token"

\* What one uninterrupted run of migrate_filterlist leaves in a row.
SingleRunResult(row) ==
    [name |-> row.name,
     send_alert |-> IF row.name \in {"token", "domain", "invite"} THEN "True"
                    ELSE IF row.name \in {"extension", "redirect"} THEN "False"
                    ELSE "NULL",
     dm_embed |-> ""]

\* C7: a run of migrate_filterlist that completes after an earlier run (one
\* that completed, or one that failed having saved only some rows) leaves
\* every row as a single uninterrupted run does.
C7_RerunResult ==
    (ForwardDone /\ Len(outcomes) >= 2) =>
        \A i \in 1..NRows : rows[i] = SingleRunResult(rows[i])

C7_Witness ==
    /\ ForwardDone
    /\ \E k \in 1..Len(outcomes) : outcomes[k] = "partial"
    /\ outcomes[Len(outcomes)] = "done"
    /\ \E i \in 1..NRows : rows[i].name = "redirect"

C7_WitnessRerun ==
    /\ ForwardDone
    /\ Len(outcomes) >= 2
    /\ outcomes[1] = "done" /\ outcomes[2] = "done"

\* C9: filterlist.send_alert is added nullable, and the forward data step
\* stores NULL in send_alert (and "" in dm_embed) of every row whose name is
\* not mapped, without failing.
C9_NullAccepted ==
    /\ migError # "IntegrityError"
    /\ (ForwardDone =>
            /\ schema["filter.send_alert"] = "null"
            /\ schema["filterlist.send_alert"] = "null"
            /\ \A i \in 1..NRows :
                rows[i].name \notin DOMAIN change_map =>
                    rows[i].send_alert = "NULL" /\ rows[i].dm_embed = "")

\* ------------------------------------------- InfractionSerializer.validate

\* "ban" and "note" stand for the types validate does not name.
InfractionTypes == {"kick", "warning", "superstar", "ban", "note"}

\* A datetime object; every datetime is truthy.
SomeDatetime == "datetime(2030, 1, 1)"

InfAttrSets ==
    [type : InfractionTypes \cup {"ABSENT"},
     expires_at : {"ABSENT", "None", SomeDatetime},
     hidden : {"ABSENT", "False", "True"},
     reason : {"ABSENT", "spam"}]

Pending == [status |-> "pending", key |-> "", message |-> <<>>, attrs |-> <<>>]

Returned(attrs) == [status |-> "returned", key |-> "", message |-> <<>>, attrs |-> attrs]

\* raise ValidationError({key: message})
ValidationError(key, message) ==
    [status |-> "ValidationError", key |-> key, message |-> message, attrs |-> <<>>]

MutInfractionValidateKickOnly(attrs) ==
    LET infr_type == Get(attrs, "type")
        expires_at == Get(attrs, "expires_at")
        hidden == Get(attrs, "hidden")
    IN  IF Truthy(expires_at) /\ infr_type \in {"kick"}
        THEN ValidationError("expires_at", <<infr_type, " infractions cannot expire.">>)
        ELSE IF Truthy(hidden) /\ infr_type \in {"superstar"}
        THEN ValidationError("hidden", <<infr_type, " infractions cannot be hidden.">>)
        ELSE Returned(attrs)

InfractionValidate(attrs) ==
    LET infr_type == Get(attrs, "type")
        expires_at == Get(attrs, "expires_at")
        hidden == Get(attrs, "hidden")
    IN  IF Truthy(expires_at) /\ infr_type \in {"kick", "warning"}
        THEN ValidationError("expires_at", <<infr_type, " infractions cannot expire.">>)
        ELSE IF Truthy(hidden) /\ infr_type \in {"superstar"}
        THEN ValidationError("hidden", <<infr_type, " infractions cannot be hidden.">>)
        ELSE Returned(attrs)

InfInit ==
    /\ infAttrs \in InfAttrSets
    /\ infResult = Pending

InfParked ==
    /\ infAttrs = [type |-> "ABSENT", expires_at |-> "ABSENT", hidden |-> "ABSENT",
                   reason |-> "ABSENT"]
    /\ infResult = Pending

InfValidate ==
    /\ infResult.status = "pending"
    /\ infResult' = InfractionValidate(infAttrs)
    /\ UNCHANGED infAttrs
    /\ UNCHANGED notInf

\* C2: validate raises an error keyed on expires_at when type is kick or
\* warning and expires_at is non-null, raises an error keyed on hidden when
\* type is superstar and hidden is true, and returns every other attribute
\* set unchanged.
C2_InfractionValidate ==
    infResult.status # "pending" =>
        IF infAttrs.type \in {"kick", "warning"} /\ infAttrs.expires_at \notin {"ABSENT", "None"}
        THEN infResult.status = "ValidationError" /\ infResult.key = "expires_at"
        ELSE IF infAttrs.type = "superstar" /\ infAttrs.hidden = "True"
        THEN infResult.status = "ValidationError" /\ infResult.key = "hidden"
        ELSE infResult.status = "returned" /\ infResult.attrs = infAttrs

C2_Witness ==
    /\ infResult.status = "ValidationError"
    /\ infResult.key = "expires_at"
    /\ infAttrs.type = "warning"

\* ----------------------------------------------------- NominationSerializer

NomAttrSets ==
    [active : {"ABSENT", "True", "False"},
     unnominate_reason : {"ABSENT", "", "inactive"}]

\* A write that is not partial carries both fields.
NomFullAttrSets == {a \in NomAttrSets : a.active # "ABSENT" /\ a.unnominate_reason # "ABSENT"}

MutNominationValidateOr(attrs) ==
    LET active == Get(attrs, "active")
        unnominate_reason == Get(attrs, "unnominate_reason")
    IN  IF Truthy(active) \/ Truthy(unnominate_reason)
        THEN ValidationError("unnominate_reason",
                             <<"An active nomination can't have an unnominate reason">>)
        ELSE Returned(attrs)

NominationValidate(attrs) ==
    LET active == Get(attrs, "active")
        unnominate_reason == Get(attrs, "unnominate_reason")
    IN  IF Truthy(active) /\ Truthy(unnominate_reason)
        THEN ValidationError("unnominate_reason",
                             <<"An active nomination can't have an unnominate reason">>)
        ELSE Returned(attrs)

NoNomination == [exists |-> FALSE, active |-> "None", unnominate_reason |-> "None"]

\* ModelSerializer.update: every key of the validated data is set on the
\* instance, the other fields keep their values; then save().
Persisted(instance, attrs) ==
    [exists |-> TRUE,
     active |-> IF attrs.active = "ABSENT" THEN instance.active ELSE attrs.active,
     unnominate_reason |-> IF attrs.unnominate_reason = "ABSENT"
                           THEN instance.unnominate_reason ELSE attrs.unnominate_reason]

NomInit ==
    /\ nomStore = [id \in 1..MaxNominations |-> NoNomination]
    /\ nomOp = "none"
    /\ nomAttrs = [active |-> "ABSENT", unnominate_reason |-> "ABSENT"]
    /\ nomResult = Pending

\* A write through the serializer: validate, then save if validate returned.
NomWrite(op, id, attrs) ==
    /\ nomOp' = op
    /\ nomAttrs' = attrs
    /\ nomResult' = NominationValidate(attrs)
    /\ nomStore' = IF NominationValidate(attrs).status = "returned"
                   THEN [nomStore EXCEPT ![id] = Persisted(nomStore[id], attrs)]
                   ELSE nomStore

NomCreate ==
    /\ UNCHANGED notNom
    /\ \E id \in 1..MaxNominations, attrs \in NomFullAttrSets :
           /\ ~nomStore[id].exists
           /\ \A j \in 1..(id - 1) : nomStore[j].exists
           /\ NomWrite("create", id, attrs)

NomUpdate ==
    /\ UNCHANGED notNom
    /\ \E id \in 1..MaxNominations, attrs \in NomFullAttrSets :
           /\ nomStore[id].exists
           /\ NomWrite("update", id, attrs)

NomPartialUpdate ==
    /\ UNCHANGED notNom
    /\ \E id \in 1..MaxNominations, attrs \in NomAttrSets :
           /\ nomStore[id].exists
           /\ NomWrite("partial_update", id, attrs)

\* C3: validate raises an error keyed on unnominate_reason when active is
\* true and unnominate_reason is non-empty, and returns every other attribute
\* set unchanged.
C3_NominationValidate ==
    nomOp # "none" =>
        IF nomAttrs.active = "True" /\ nomAttrs.unnominate_reason \notin {"ABSENT", ""}
        THEN nomResult.status = "ValidationError" /\ nomResult.key = "unnominate_reason"
        ELSE nomResult.status = "returned" /\ nomResult.attrs = nomAttrs

C3_Witness ==
    /\ nomOp = "create"
    /\ nomResult.status = "ValidationError"
    /\ nomAttrs.active = "True" /\ nomAttrs.unnominate_reason = "inactive"

\* C10: no persisted Nomination is active and carries a non-empty
\* unnominate_reason, whatever writes the serializer accepted.
C10_NoActiveWithReason ==
    \A id \in 1..MaxNominations :
        nomStore[id].exists =>
            ~(nomStore[id].active = "True" /\ nomStore[id].unnominate_reason # "")


\* ------------------------------- MessageDeletionContextSerializer.create

ActorIds == {1}

\* Validated DeletedMessage payloads.  id is the message's own primary key,
\* given by the client; two payloads of one request may carry the same id.
MessagePayloads == [id : 1..MaxMsgId, author : {2}]

PayloadSeqs == UNION {[1..n -> MessagePayloads] : n \in 0..MaxMessages}

\* validated_data.pop('deletedmessage_set'): the dict without the key.
Pop(dict, key) == [k \in (DOMAIN dict) \ {key} |-> dict[k]]

\* MessageDeletionContext.objects.create(**validated_data): the primary key
\* is assigned by the database.
ContextRecord(data) ==
    [id |-> Len(contexts) + 1, actor |-> data["actor"]]

\* DeletedMessage.objects.create(deletion_context=deletion_context, **message)
MutChildRecordFirstContext(context, message) ==
    [id |-> message.id, author |-> message.author, deletion_context |-> 1]

ChildRecord(context, message) ==
    [id |-> message.id, author |-> message.author, deletion_context |-> context]

\* INSERT of a primary key the table already holds fails.
InsertAccepted(table, row) == \A k \in 1..Len(table) : table[k].id # row.id

MdcInit ==
    /\ contexts = <<>>
    /\ messages = <<>>
    /\ cpc = "idle"
    /\ validated_data = [k \in {"actor"} |-> 1]
    /\ popped = <<>>
    /\ deletion_context = 0
    /\ mi = 0
    /\ returned = 0
    /\ before = [contexts |-> 0, messages |-> 0]
    /\ calls = 0

\* create is entered and pops the embedded messages.
CreateEnter ==
    /\ cpc \in {"idle", "returned", "raised"}
    /\ calls < MaxCalls
    /\ \E actor \in ActorIds, set \in PayloadSeqs :
        LET data == [k \in {"actor", "deletedmessage_set"} |->
                        IF k = "actor" THEN actor ELSE set]
        IN  /\ popped' = data["deletedmessage_set"]
            /\ validated_data' = Pop(data, "deletedmessage_set")
    /\ cpc' = "popped"
    /\ deletion_context' = 0
    /\ mi' = 0
    /\ returned' = 0
    /\ before' = [contexts |-> Len(contexts), messages |-> Len(messages)]
    /\ calls' = calls + 1
    /\ UNCHANGED <<contexts, messages>>
    /\ UNCHANGED notMdc

\* The parent record is created.
CreateContext ==
    /\ cpc = "popped"
    /\ contexts' = Append(contexts, ContextRecord(validated_data))
    /\ deletion_context' = ContextRecord(validated_data).id
    /\ mi' = 1
    /\ cpc' = "created"
    /\ UNCHANGED <<messages, validated_data, popped, returned, before, calls>>
    /\ UNCHANGED notMdc

\* One iteration of the loop over messages; the INSERT succeeds.
CreateMessage ==
    /\ cpc = "created" /\ mi <= Len(popped)
    /\ InsertAccepted(messages, ChildRecord(deletion_context, popped[mi]))
    /\ messages' = Append(messages, ChildRecord(deletion_context, popped[mi]))
    /\ mi' = mi + 1
    /\ UNCHANGED <<contexts, cpc, validated_data, popped, deletion_context, returned,
                   before, calls>>
    /\ UNCHANGED notMdc

\* The INSERT raises (IntegrityError on a duplicate primary key); create has
\* no handler and opens no transaction, the exception leaves it.
CreateMessageIntegrityError ==
    /\ cpc = "created" /\ mi <= Len(popped)
    /\ ~InsertAccepted(messages, ChildRecord(deletion_context, popped[mi]))
    /\ cpc' = "raised"
    /\ UNCHANGED <<contexts, messages, validated_data, popped, deletion_context, mi,
                   returned, before, calls>>
    /\ UNCHANGED notMdc

\* The INSERT raises for a reason of the database's own.
CreateMessageWriteError ==
    /\ cpc = "created" /\ mi <= Len(popped)
    /\ cpc' = "raised"
    /\ UNCHANGED <<contexts, messages, validated_data, popped, deletion_context, mi,
                   returned, before, calls>>
    /\ UNCHANGED notMdc

\* The loop is exhausted: return deletion_context.
CreateReturn ==
    /\ cpc = "created" /\ mi = Len(popped) + 1
    /\ returned' = deletion_context
    /\ cpc' = "returned"
    /\ UNCHANGED <<contexts, messages, validated_data, popped, deletion_context, mi,
                   before, calls>>
    /\ UNCHANGED notMdc

\* C4: every DeletedMessage references a context that exists (the parent is
\* created before any child), and when create returns it has created exactly
\* one context, which it returns, and exactly one DeletedMessage per payload,
\* in payload order, each referencing that context.
C4_NestedCreate ==
    /\ \A k \in 1..Len(messages) :
        \E c \in 1..Len(contexts) : contexts[c].id = messages[k].deletion_context
    /\ cpc = "returned" =>
        /\ Len(contexts) = before.contexts + 1
        /\ contexts[Len(contexts)].id = returned
        /\ \A c \in 1..before.contexts : contexts[c].id # returned
        /\ Len(messages) = before.messages + Len(popped)
        /\ \A k \in 1..Len(popped) :
            messages[before.messages + k] =
                [id |-> popped[k].id, author |-> popped[k].author,
                 deletion_context |-> returned]

C4_Witness ==
    /\ cpc = "returned"
    /\ Len(popped) = 2
    /\ before.contexts = 1
    /\ popped[1].id = 2 /\ popped[2].id = 1

\* C5: when the creation of a child fails, the store holds neither the new
\* context nor any child created before the failure.
C5_NoPartialWrite ==
    cpc = "raised" =>
        /\ Len(contexts) = before.contexts
        /\ Len(messages) = before.messages

\* ------------------------------------------------ serialization round trip

UserIds == {5, 9}

\* User table, as far as UserSerializer shows it.
UserTable == [id \in UserIds |-> [id |-> id, name |-> IF id = 5 THEN "lemon" ELSE "joe",
                                  in_guild |-> "True"]]

Datetimes == {"datetime(2030, 1, 1)", "datetime(2031, 6, 1)"}

\* DateTimeField.to_representation: ISO 8601.
Iso(v) ==
    IF v = "datetime(2030, 1, 1)" THEN "2030-01-01T00:00:00Z"
    ELSE IF v = "datetime(2031, 6, 1)" THEN "2031-06-01T00:00:00Z"
    ELSE "null"

\* DateTimeField.to_internal_value
ParseIso(v) ==
    IF v = "2030-01-01T00:00:00Z" THEN "datetime(2030, 1, 1)"
    ELSE IF v = "2031-06-01T00:00:00Z" THEN "datetime(2031, 6, 1)"
    ELSE IF v = "null" THEN "None"
    ELSE "invalid"

\* BooleanField
JsonBool(v) == IF v = "True" THEN "true" ELSE IF v = "False" THEN "false" ELSE "null"

ParseBool(v) ==
    IF v = "true" THEN "True" ELSE IF v = "false" THEN "False"
    ELSE IF v = "null" THEN "None" ELSE "invalid"

Variants == {"InfractionSerializer", "ExpandedInfractionSerializer",
             "OffTopicChannelNameSerializer"}

\* Persisted Infraction rows that satisfy the rules of validate.
InfractionRecords ==
    {r \in [id : {1}, type : InfractionTypes, expires_at : Datetimes \cup {"None"},
            hidden : {"True", "False"}, user : UserIds, actor : UserIds] :
        /\ (r.type \in {"kick", "warning"} => r.expires_at = "None")
        /\ (r.type = "superstar" => r.hidden = "False")}

OffTopicChannelNameRecords == [name : {"general-chat", "ot1-lemon"}]

Field(data, key) == IF key \in DOMAIN data THEN data[key] ELSE "ABSENT"

\* UserSerializer(user).data
UserData(user) == [kind |-> "dict", value |-> user]

\* ModelSerializer.to_representation with Meta.fields of InfractionSerializer:
\* a relation is shown as the primary key of the related row.
MutInfractionToRepresentationNoHidden(instance) ==
    [kind |-> "dict",
     value |-> [id |-> instance.id,
                expires_at |-> Iso(instance.expires_at),
                user |-> [kind |-> "pk", value |-> instance.user],
                actor |-> [kind |-> "pk", value |-> instance.actor],
                type |-> instance.type]]

InfractionToRepresentation(instance) ==
    [kind |-> "dict",
     value |-> [id |-> instance.id,
                expires_at |-> Iso(instance.expires_at),
                user |-> [kind |-> "pk", value |-> instance.user],
                actor |-> [kind |-> "pk", value |-> instance.actor],
                type |-> instance.type,
                hidden |-> JsonBool(instance.hidden)]]

\* ExpandedInfractionSerializer.to_representation
ExpandedInfractionToRepresentation(instance) ==
    LET ret == InfractionToRepresentation(instance).value
        user == UserTable[ret.user.value]
        actor == UserTable[ret.actor.value]
    IN  [kind |-> "dict",
         value |-> [ret EXCEPT !.user = UserData(user), !.actor = UserData(actor)]]

\* OffTopicChannelNameSerializer.to_representation
OffTopicChannelNameToRepresentation(obj) == [kind |-> "str", value |-> obj.name]

ToRepresentation(variant, record) ==
    IF variant = "InfractionSerializer" THEN InfractionToRepresentation(record)
    ELSE IF variant = "ExpandedInfractionSerializer"
    THEN ExpandedInfractionToRepresentation(record)
    ELSE OffTopicChannelNameToRepresentation(record)

\* A relation is written as a primary key of an existing row.
PrimaryKeyOk(data, key) ==
    key \in DOMAIN data /\ data[key].kind = "pk" /\ data[key].value \in UserIds

\* Validation of input by InfractionSerializer and its subclass: the input
\* must be a dict; id is read-only and dropped; user and actor must be primary
\* keys; then validate.
InfractionRunValidation(data) ==
    IF data.kind # "dict"
    THEN ValidationError("non_field_errors", <<"Invalid data. Expected a dictionary">>)
    ELSE IF ~PrimaryKeyOk(data.value, "user")
    THEN ValidationError("user", <<"Incorrect type. Expected pk value">>)
    ELSE IF ~PrimaryKeyOk(data.value, "actor")
    THEN ValidationError("actor", <<"Incorrect type. Expected pk value">>)
    ELSE InfractionValidate(
            [type |-> Field(data.value, "type"),
             expires_at |-> IF Field(data.value, "expires_at") = "ABSENT" THEN "ABSENT"
                            ELSE ParseIso(data.value.expires_at),
             hidden |-> IF Field(data.value, "hidden") = "ABSENT" THEN "ABSENT"
                        ELSE ParseBool(data.value.hidden),
             user |-> data.value.user.value,
             actor |-> data.value.actor.value])

\* Validation of input by OffTopicChannelNameSerializer: a dict with name.
OffTopicChannelNameRunValidation(data) ==
    IF data.kind # "dict"
    THEN ValidationError("non_field_errors", <<"Invalid data. Expected a dictionary">>)
    ELSE Returned([name |-> Field(data.value, "name")])

RunValidation(variant, data) ==
    IF variant = "OffTopicChannelNameSerializer"
    THEN OffTopicChannelNameRunValidation(data)
    ELSE InfractionRunValidation(data)

RtInit ==
    /\ rtVariant \in Variants
    /\ rtRecord \in IF rtVariant = "OffTopicChannelNameSerializer"
                    THEN OffTopicChannelNameRecords ELSE InfractionRecords
    /\ rtRepr = [kind |-> "none", value |-> ""]
    /\ rtResult = Pending
    /\ rtPc = "start"

RtSerialize ==
    /\ rtPc = "start"
    /\ rtRepr' = ToRepresentation(rtVariant, rtRecord)
    /\ rtPc' = "serialized"
    /\ UNCHANGED <<rtVariant, rtRecord, rtResult>>
    /\ UNCHANGED notRt

RtValidate ==
    /\ rtPc = "serialized"
    /\ rtResult' = RunValidation(rtVariant, rtRepr)
    /\ rtPc' = "validated"
    /\ UNCHANGED <<rtVariant, rtRecord, rtRepr>>
    /\ UNCHANGED notRt

\* The record's attribute set without the server-assigned id.
AttributeSet(variant, record) ==
    IF variant = "OffTopicChannelNameSerializer"
    THEN [name |-> record.name]
    ELSE [type |-> record.type, expires_at |-> record.expires_at,
          hidden |-> record.hidden, user |-> record.user, actor |-> record.actor]

MigParked ==
    /\ rows = [i \in 1..NRows |-> [name |-> "token", send_alert |-> "NoColumn",
                                   dm_embed |-> "NoColumn"]]
    /\ schema = [c \in Columns |-> "absent"]
    /\ applied = 0
    /\ direction = "forward"
    /\ pc = "idle"
    /\ cursor = 0
    /\ runs = 0
    /\ outcomes = <<>>
    /\ migError = "none"
    /\ txn = [rows |-> rows, schema |-> schema, applied |-> 0, direction |-> "forward"]

RtParked ==
    /\ rtVariant = "OffTopicChannelNameSerializer"
    /\ rtRecord = [name |-> "general-chat"]
    /\ rtRepr = [kind |-> "none", value |-> ""]
    /\ rtResult = Pending
    /\ rtPc = "start"

NomNext ==
    \/ NomCreate
    \/ NomUpdate
    \/ NomPartialUpdate

MdcNext ==
    \/ CreateEnter
    \/ CreateContext
    \/ CreateMessage
    \/ CreateMessageIntegrityError
    \/ CreateMessageWriteError
    \/ CreateReturn

RtNext ==
    \/ RtSerialize
    \/ RtValidate

InitMigration == MigInit /\ InfParked /\ NomInit /\ MdcInit /\ RtParked

InitInfraction == MigParked /\ InfInit /\ NomInit /\ MdcInit /\ RtParked

InitNomination == MigParked /\ InfParked /\ NomInit /\ MdcInit /\ RtParked

InitCreate == MigParked /\ InfParked /\ NomInit /\ MdcInit /\ RtParked

InitRoundTrip == MigParked /\ InfParked /\ NomInit /\ MdcInit /\ RtInit

\* The schema migration.
SpecMigration ==
    InitMigration /\ [][MigNext]_vars

\* InfractionSerializer.validate applied to a candidate attribute set.
SpecInfraction ==
    InitInfraction /\ [][InfValidate]_vars

\* Writes of Nomination records through NominationSerializer.
SpecNomination ==
    InitNomination /\ [][NomNext]_vars

\* Calls of MessageDeletionContextSerializer.create.
SpecCreate ==
    InitCreate /\ [][MdcNext]_vars

\* to_representation of a record followed by validation of the output.
SpecRoundTrip ==
    InitRoundTrip /\ [][RtNext]_vars

Init == MigInit /\ InfInit /\ NomInit /\ MdcInit /\ RtInit

Next ==
    \/ MigNext
    \/ InfValidate
    \/ NomNext
    \/ MdcNext
    \/ RtNext

Spec == Init /\ [][Next]_vars

====
